---- MODULE Spec2Model ----
(***************************************************************************)
(* DU Preference Maker (main_app.py, du_pref_app.py): the cutoff table     *)
(* loader and its cache, the preference finder (filter, ranking, nearest   *)
(* cutoffs, export, counselling note) and the table upload; the accounts   *)
(* of main_app.py and pages/login_page.py (users.csv, sign up, login,      *)
(* logout, the logged-in gate).                                            *)
(*                                                                         *)
(* Text is a sequence of one-character strings, so that str.strip,         *)
(* str.upper and str.lower are computed rather than assumed.  A college    *)
(* name is a one-element sequence holding the whole name: the code only    *)
(* ever compares college names whole (isin).                               *)
(***************************************************************************)
EXTENDS Integers, Sequences, FiniteSets, TLC

VARIABLES
  app,      \* which script the process runs: "main" (main_app.py) or "simple" (du_pref_app.py)
  gemini,   \* GEMINI_AVAILABLE
  disk,     \* du_cutoff.csv: a raw file, or NoFile
  cache,    \* the st.cache_data entry of the loader: NoEntry or its cached return value
  pc,       \* per session: position of the script run
  held,     \* per session: the loader's return value, computed and not yet stored in the cache
  df,       \* per session: df_cutoff / df of the current script run
  out,      \* per session: what the current script run has put on the page
  replaced, \* history: some table replace has completed (file written and cache cleared)
  fresh,    \* history, per session: its latest read started after a replace had completed,
            \* with no replace in progress, and no file write has happened during the read
  stale,    \* history, per session: such a read returned a table other than the file's
  users,    \* users.csv: a raw file, or NoFile
  apc,      \* per session: position of the script run in the account code
  users_df, \* per session: users_df of the current script run
  ss,       \* per session: st.session_state (logged_in, username)
  form,     \* per session: the account form as submitted, and the message shown for it
  seen,     \* history, per session: users.csv as it was when the run read it
  last,     \* history, per session: its latest login attempt
  grant     \* history, per session: its latest login attempt that set logged_in

acct == <<users, apc, users_df, ss, form, seen, last, grant>>

vars == <<app, gemini, disk, cache, pc, held, df, out, replaced, fresh, stale, acct>>

----------------------------------------------------------------------------
(* Bounds *)

\* rows of a table drawn from the full row alphabet
MaxRows == 2
\* rows of a table of the long family (one program, cutoffs by position)
MaxLongRows == 7
\* scores 0..MaxScore
MaxScore == 2
\* sessions of the process
NumSessions == 2
\* rows of users.csv
MaxUsers == 2

\* nearest = prog_df.sort_values(by=category).head(6)
NearestLimit == 6
\* eligible_df["COLLEGE NAME"].head(6)
PromptLimit == 6

Sessions == 1..NumSessions
Scores == 0..MaxScore

----------------------------------------------------------------------------
(* Text *)

LetterPairs ==
  { <<"a","A">>, <<"b","B">>, <<"c","C">>, <<"d","D">>, <<"e","E">>, <<"f","F">>,
    <<"g","G">>, <<"h","H">>, <<"i","I">>, <<"j","J">>, <<"k","K">>, <<"l","L">>,
    <<"m","M">>, <<"n","N">>, <<"o","O">>, <<"p","P">>, <<"q","Q">>, <<"r","R">>,
    <<"s","S">>, <<"t","T">>, <<"u","U">>, <<"v","V">>, <<"w","W">>, <<"x","X">>,
    <<"y","Y">>, <<"z","Z">> }

upper_char(c) ==
  IF \E p \in LetterPairs : p[1] = c THEN (CHOOSE p \in LetterPairs : p[1] = c)[2] ELSE c

lower_char(c) ==
  IF \E p \in LetterPairs : p[2] = c THEN (CHOOSE p \in LetterPairs : p[2] = c)[1] ELSE c

\* str.upper()
upper(s) == [i \in 1..Len(s) |-> upper_char(s[i])]

\* str.lower()
lower(s) == [i \in 1..Len(s) |-> lower_char(s[i])]

RECURSIVE lstrip(_)
lstrip(s) == IF s # <<>> /\ Head(s) = " " THEN lstrip(Tail(s)) ELSE s

RECURSIVE rstrip(_)
rstrip(s) == IF s # <<>> /\ s[Len(s)] = " " THEN rstrip(SubSeq(s, 1, Len(s) - 1)) ELSE s

\* str.strip()
strip(s) == rstrip(lstrip(s))

\* c.strip().upper() for a column name c
normalize_column(c) == upper(strip(c))

DigitChars == <<"0", "1", "2", "3", "4", "5", "6", "7", "8", "9">>

IsDigit(c) == \E d \in 1..10 : DigitChars[d] = c

DigitVal(c) == (CHOOSE d \in 1..10 : DigitChars[d] = c) - 1

IsNumericText(s) == s # <<>> /\ \A i \in 1..Len(s) : IsDigit(s[i])

RECURSIVE ParseNat(_)
ParseNat(s) ==
  IF s = <<>> THEN 0 ELSE 10 * ParseNat(SubSeq(s, 1, Len(s) - 1)) + DigitVal(s[Len(s)])

RECURSIVE FormatNat(_)
FormatNat(n) ==
  IF n < 10 THEN <<DigitChars[n + 1]>> ELSE FormatNat(n \div 10) \o <<DigitChars[(n % 10) + 1]>>

----------------------------------------------------------------------------
(* Cell values of a DataFrame *)

Num(n) == [k |-> "num", n |-> n, s |-> <<>>]
NaN == [k |-> "nan", n |-> 0, s |-> <<>>]
Str(s) == [k |-> "str", n |-> 0, s |-> s]

COLLEGE_NAME == <<"C","O","L","L","E","G","E"," ","N","A","M","E">>
PROGRAM_NAME == <<"P","R","O","G","R","A","M"," ","N","A","M","E">>
RANK == <<"R","a","n","k">>
MARKS_ABOVE_CUTOFF ==
  <<"M","a","r","k","s"," ","A","b","o","v","e"," ","C","u","t","o","f","f">>

UR == <<"U","R">>
OBC == <<"O","B","C">>
SC == <<"S","C">>
ST == <<"S","T">>
EWS == <<"E","W","S">>
PWBD == <<"P","W","B","D">>
PwBD == <<"P","w","B","D">>

\* main_app.py: the list the loader coerces and the category selectbox offers
MainCategories == <<UR, OBC, SC, ST, EWS, PWBD>>
\* du_pref_app.py: the list the loader coerces and the category selectbox offers
SimpleCategories == <<UR, OBC, SC, ST, EWS, PwBD>>

Range(s) == {s[i] : i \in 1..Len(s)}

girls_colleges ==
  { <<"Aditi Mahavidyalaya (W)">>, <<"Bhagini Nivedita College (W)">>,
    <<"Bharati College (W)">>, <<"Miranda House">>, <<"Gargi College (W)">>,
    <<"Lady Shri Ram College for Women (W)">>, <<"Lakshmibai College (W)">>,
    <<"Daulat Ram College (W)">>, <<"Indraprastha College for Women (W)">>,
    <<"Maitreyi College (W)">>, <<"Jesus & Mary College (W)">>,
    <<"Kamala Nehru College (W)">>, <<"Janki Devi Memorial College (W)">>,
    <<"Institute of Home Economics (W)">>, <<"Kalindi College (W)">>,
    <<"Shaheed Rajguru College of Applied Sciences for Women (W)">>,
    <<"Mata Sundri College for Women (W)">>,
    <<"Shyama Prasad Mukherjee College for Women (W)">>,
    <<"Vivekananda College (W)">> }

----------------------------------------------------------------------------
(* DataFrames: column names, rows of cell values, and the index labels the *)
(* rows keep through filtering and sorting.                                *)

EmptyDF == [cols |-> <<>>, rows |-> <<>>, index |-> <<>>]

\* DataFrame.empty: any axis of length 0
IsEmpty(d) == Len(d.cols) = 0 \/ Len(d.rows) = 0

HasColumn(d, c) == \E i \in 1..Len(d.cols) : d.cols[i] = c

ColPos(d, c) == CHOOSE i \in 1..Len(d.cols) : d.cols[i] = c

\* d[c] at row position r
Cell(d, r, c) == d.rows[r][ColPos(d, c)]

RECURSIVE PositionsWhere(_, _, _)
\* the positions r in from..n with keep[r], in increasing order
PositionsWhere(keep, from, n) ==
  IF from > n THEN <<>>
  ELSE (IF keep[from] THEN <<from>> ELSE <<>>) \o PositionsWhere(keep, from + 1, n)

\* d[mask]: the rows at the kept positions, with their index labels
Take(d, positions) ==
  [cols |-> d.cols,
   rows |-> [i \in 1..Len(positions) |-> d.rows[positions[i]]],
   index |-> [i \in 1..Len(positions) |-> d.index[positions[i]]]]

\* d[mask] for a boolean mask over the row positions
Mask(d, keep) == Take(d, PositionsWhere(keep, 1, Len(d.rows)))

\* d.head(n)
head(d, n) == Take(d, [i \in 1..(IF Len(d.rows) < n THEN Len(d.rows) ELSE n) |-> i])

\* d.dropna(subset=[c])
dropna(d, c) == Mask(d, [r \in 1..Len(d.rows) |-> Cell(d, r, c).k # "nan"])

----------------------------------------------------------------------------
(* du_cutoff.csv as text: a header of column names and rows of cells *)

NoFile == [exists |-> FALSE, header |-> <<>>, rows |-> <<>>]

File(h, r) == [exists |-> TRUE, header |-> h, rows |-> r]

\* pandas' type inference for one column: all cells numeric or blank
ColumnIsNumeric(f, c) ==
  \A r \in 1..Len(f.rows) : f.rows[r][c] = <<>> \/ IsNumericText(f.rows[r][c])

\* pd.read_csv(filepath) of an existing file
read_csv(f) ==
  [cols |-> f.header,
   rows |-> [r \in 1..Len(f.rows) |->
              [c \in 1..Len(f.header) |->
                 IF f.rows[r][c] = <<>> THEN NaN
                 ELSE IF ColumnIsNumeric(f, c) THEN Num(ParseNat(f.rows[r][c]))
                 ELSE Str(f.rows[r][c])]],
   index |-> [r \in 1..Len(f.rows) |-> r - 1]]

\* pd.to_numeric(x, errors="coerce") of one value
to_numeric(v) ==
  IF v.k = "str" THEN (IF IsNumericText(strip(v.s)) THEN Num(ParseNat(strip(v.s))) ELSE NaN)
  ELSE v

\* df.columns = [c.strip().upper() for c in df.columns]
normalize_columns(d) == [d EXCEPT !.cols = [i \in 1..Len(d.cols) |-> normalize_column(d.cols[i])]]

\* for cat in cats: if cat in df.columns: df[cat] = pd.to_numeric(df[cat], errors="coerce")
coerce_categories(d, cats) ==
  [d EXCEPT !.rows = [r \in 1..Len(d.rows) |->
                        [c \in 1..Len(d.cols) |->
                           IF d.cols[c] \in Range(cats) THEN to_numeric(d.rows[r][c])
                           ELSE d.rows[r][c]]]]

\* str(x) of a cell value
FormatValue(v) ==
  CASE v.k = "num" -> (IF v.n < 0 THEN <<"-">> \o FormatNat(-v.n) ELSE FormatNat(v.n))
    [] v.k = "nan" -> <<"n", "a", "n">>
    [] OTHER -> v.s

\* df[c] = df[c].astype(str)
astype_str(d, c) ==
  [d EXCEPT !.rows = [r \in 1..Len(d.rows) |->
                        [i \in 1..Len(d.cols) |->
                           IF d.cols[i] = c THEN Str(FormatValue(d.rows[r][i]))
                           ELSE d.rows[r][i]]]]

Loaded(d, w) == [raised |-> FALSE, warned |-> w, df |-> d]
LoadRaised == [raised |-> TRUE, warned |-> FALSE, df |-> EmptyDF]

\* main_app.py load_cutoff_data(): the function body, without the cache
load_cutoff_data(f) ==
  IF ~f.exists THEN Loaded(EmptyDF, FALSE)
  ELSE LET d == normalize_columns(read_csv(f))
       IN Loaded(coerce_categories(d, MainCategories),
                 ~HasColumn(d, COLLEGE_NAME) \/ ~HasColumn(d, PROGRAM_NAME))

\* du_pref_app.py load_data(): the function body, without the cache
load_data(f) ==
  IF ~f.exists THEN LoadRaised
  ELSE LET d == normalize_columns(read_csv(f))
       IN IF ~HasColumn(d, PROGRAM_NAME) THEN LoadRaised
          ELSE Loaded(coerce_categories(astype_str(d, PROGRAM_NAME), SimpleCategories), FALSE)

\* new_df.to_csv("du_cutoff.csv", index=False) of the upload, columns normalized
SavedUpload(f) ==
  LET d == normalize_columns(read_csv(f))
  IN File(d.cols,
          [r \in 1..Len(d.rows) |->
             [c \in 1..Len(d.cols) |->
                IF d.rows[r][c].k = "nan" THEN <<>> ELSE FormatValue(d.rows[r][c])]])

----------------------------------------------------------------------------
(* Sorting *)

SetMin(S) == CHOOSE x \in S : \A y \in S : x <= y

RECURSIVE Orders(_, _)
\* every arrangement of the positions S in non-decreasing order of key
Orders(S, key) ==
  IF S = {} THEN {<<>>}
  ELSE LET m == SetMin({key[i] : i \in S})
       IN UNION {{<<i>> \o t : t \in Orders(S \ {i}, key)} : i \in {j \in S : key[j] = m}}

\* d.sort_values(by=c, ascending=asc) with the default kind="quicksort", which
\* is not a stable sort: rows with equal keys come out in any order
sort_values(d, c, asc) ==
  {Take(d, o) : o \in Orders(1..Len(d.rows),
                             [r \in 1..Len(d.rows) |->
                                IF asc THEN Cell(d, r, c).n ELSE -Cell(d, r, c).n])}

\* d[cs]: the listed columns, in the listed order
Project(d, cs) ==
  [cols |-> cs,
   rows |-> [r \in 1..Len(d.rows) |-> [i \in 1..Len(cs) |-> Cell(d, r, cs[i])]],
   index |-> d.index]

HasColumns(d, cs) == \A i \in 1..Len(cs) : HasColumn(d, cs[i])

\* d.to_csv(index=False): the header line and the cells as text
to_csv(d) ==
  [columns |-> d.cols,
   rows |-> [r \in 1..Len(d.rows) |->
               [c \in 1..Len(d.cols) |->
                  IF d.rows[r][c].k = "nan" THEN <<>> ELSE FormatValue(d.rows[r][c])]]]

NoCsv == [columns |-> <<>>, rows |-> <<>>]

----------------------------------------------------------------------------
(* The preference finder *)

\* df["PROGRAM NAME"].str.lower() == program.lower(), for one cell
ProgramMatches(v, program) == v.k = "str" /\ lower(v.s) = lower(program)

\* filtered["COLLEGE NAME"].isin(girls_colleges), for one cell
InAllowlist(v, allow) == v.k = "str" /\ v.s \in allow

\* a strict comparison in place of <=
MeetsCutoffStrict(v, marks) == v.k = "num" /\ v.n < marks

\* prog_df[category] <= marks, for one cell
MeetsCutoff(v, marks) == v.k = "num" /\ v.n <= marks

\* the subtraction the other way round
MarginReversed(marks, v) == v.n - marks

\* marks - eligible_df[category], for one cell
Margin(marks, v) == marks - v.n

\* range(1, len(eligible_df) + 1)
Ranks(n) == [i \in 1..n |-> i]

Frame(d) == [raised |-> FALSE, df |-> d]
FrameRaised == [raised |-> TRUE, df |-> EmptyDF]

\* df[df["PROGRAM NAME"].str.lower() == program.lower()].copy(), then
\* filtered[filtered["COLLEGE NAME"].isin(girls_colleges)] if girls_only
ProgramRows(d, program, girls_only, allow) ==
  IF ~HasColumn(d, PROGRAM_NAME) THEN FrameRaised
  ELSE LET filtered ==
             Mask(d, [r \in 1..Len(d.rows) |-> ProgramMatches(Cell(d, r, PROGRAM_NAME), program)])
       IN IF ~girls_only THEN Frame(filtered)
          ELSE IF ~HasColumn(filtered, COLLEGE_NAME) THEN FrameRaised
          ELSE Frame(Mask(filtered,
                          [r \in 1..Len(filtered.rows) |->
                             InAllowlist(Cell(filtered, r, COLLEGE_NAME), allow)]))

\* main_app.py filter_program_df
filter_program_df(d, program, girls_only, allow) ==
  IF IsEmpty(d) THEN Frame(d) ELSE ProgramRows(d, program, girls_only, allow)

\* prog_df.dropna(subset=[category]) and then prog_df[prog_df[category] <= marks]
EligibleRows(d, category, marks) ==
  LET present == dropna(d, category)
  IN Mask(present, [r \in 1..Len(present.rows) |-> MeetsCutoff(Cell(present, r, category), marks)])

\* eligible_df["Marks Above Cutoff"] = marks - eligible_df[category]
WithMargin(d, category, marks) ==
  [d EXCEPT !.cols = d.cols \o <<MARKS_ABOVE_CUTOFF>>,
            !.rows = [r \in 1..Len(d.rows) |->
                        d.rows[r] \o <<Num(Margin(marks, Cell(d, r, category)))>>]]

\* eligible_df.insert(0, "Rank", range(1, len(eligible_df) + 1))
WithRank(d) ==
  [d EXCEPT !.cols = <<RANK>> \o d.cols,
            !.rows = [r \in 1..Len(d.rows) |-> <<Num(Ranks(Len(d.rows))[r])>> \o d.rows[r]]]

\* the ranked frames the three statements can produce from the eligible rows
Ranked(d, category, marks) ==
  {WithRank(sorted) : sorted \in sort_values(WithMargin(d, category, marks),
                                             MARKS_ABOVE_CUTOFF, FALSE)}

\* the sorted frame without .head(6)
NearestUnlimited(d, category) == sort_values(d, category, TRUE)

\* prog_df.sort_values(by=category).head(6)
Nearest(d, category) == {head(sorted, NearestLimit) : sorted \in sort_values(d, category, TRUE)}

\* the columns st.dataframe shows of the ranked frame
ShownColumns(category) == <<RANK, COLLEGE_NAME, PROGRAM_NAME, category, MARKS_ABOVE_CUTOFF>>

\* the columns st.dataframe shows of the nearest cutoffs (category renamed "Cutoff")
NearestColumns(category) == <<COLLEGE_NAME, PROGRAM_NAME, category>>

----------------------------------------------------------------------------
(* What a script run puts on the page *)

NoReq == [asked |-> FALSE, program |-> <<>>, category |-> <<>>, marks |-> 0, girls_only |-> FALSE]

Req(program, category, marks, girls_only) ==
  [asked |-> TRUE, program |-> program, category |-> category, marks |-> marks,
   girls_only |-> girls_only]

NoPrompt == [sent |-> FALSE, colleges |-> <<>>, marks |-> 0, category |-> <<>>]

\* kind: "none"; "raised" (an exception ends the script run);
\*   "dataset_missing" (main_app.py:151); "no_data" (main_app.py:170);
\*   "category_unavailable" (main_app.py:172, du_pref_app.py:58);
\*   "not_eligible" (main_app.py:177, du_pref_app.py:64);
\*   "eligible" (main_app.py:186, du_pref_app.py:71);
\*   "unexpected_error" (du_pref_app.py:92);
\*   "login_required" (main_app.py:338)
Blank ==
  [kind |-> "none", warned |-> FALSE, programs |-> {}, req |-> NoReq,
   eligible_df |-> EmptyDF, shown |-> EmptyDF, csv |-> NoCsv, exported |-> FALSE,
   nearest |-> EmptyDF, nearest_shown |-> FALSE, note |-> "none", prompt |-> NoPrompt]

\* sorted(df_cutoff["PROGRAM NAME"].unique()), as a set; program cells of the
\* files below are non-blank text
MainPrograms(d) == {Cell(d, r, PROGRAM_NAME).s : r \in 1..Len(d.rows)}

\* sorted([p for p in df["PROGRAM NAME"].unique() if str(p).strip()]), as a set
SimplePrograms(d) ==
  {Cell(d, r, PROGRAM_NAME).s : r \in {q \in 1..Len(d.rows) : strip(Cell(d, q, PROGRAM_NAME).s) # <<>>}}

\* main_app.py lines 167-205: the outcomes of pressing "Generate Preference List"
FinderOutcomes(page, d, q) ==
  LET f == filter_program_df(d, q.program, q.girls_only, girls_colleges)
      base == [page EXCEPT !.req = q]
  IN IF f.raised THEN {[base EXCEPT !.kind = "raised"]}
     ELSE IF IsEmpty(f.df) THEN {[base EXCEPT !.kind = "no_data"]}
     ELSE IF ~HasColumn(f.df, q.category) THEN {[base EXCEPT !.kind = "category_unavailable"]}
     ELSE LET prog_df == dropna(f.df, q.category)
              eligible == EligibleRows(f.df, q.category, q.marks)
          IN IF IsEmpty(eligible)
             THEN IF ~HasColumns(prog_df, NearestColumns(q.category))
                  THEN {[base EXCEPT !.kind = "raised"]}
                  ELSE {[base EXCEPT !.kind = "not_eligible",
                                     !.nearest = Project(n, NearestColumns(q.category)),
                                     !.nearest_shown = TRUE]
                          : n \in Nearest(prog_df, q.category)}
             ELSE IF ~HasColumns(eligible, <<COLLEGE_NAME, PROGRAM_NAME>>)
                  THEN {[base EXCEPT !.kind = "raised"]}
                  ELSE {[base EXCEPT !.kind = "eligible",
                                     !.eligible_df = e,
                                     !.shown = Project(e, ShownColumns(q.category)),
                                     !.csv = to_csv(e),
                                     !.exported = TRUE,
                                     !.note = IF gemini THEN "none" ELSE "unavailable"]
                          : e \in Ranked(eligible, q.category, q.marks)}

\* du_pref_app.py lines 50-92: the outcomes of submitting the sidebar form
SimpleOutcomes(page, d, q) ==
  LET f == ProgramRows(d, q.program, q.girls_only, girls_colleges)
      base == [page EXCEPT !.req = q]
  IN IF f.raised THEN {[base EXCEPT !.kind = "unexpected_error"]}
     ELSE IF ~HasColumn(f.df, q.category) THEN {[base EXCEPT !.kind = "category_unavailable"]}
     ELSE LET eligible == EligibleRows(f.df, q.category, q.marks)
          IN IF IsEmpty(eligible) THEN {[base EXCEPT !.kind = "not_eligible"]}
             ELSE IF ~HasColumns(eligible, <<COLLEGE_NAME, PROGRAM_NAME>>)
                  THEN {[base EXCEPT !.kind = "unexpected_error"]}
                  ELSE {[base EXCEPT !.kind = "eligible",
                                     !.eligible_df = e,
                                     !.shown = Project(e, ShownColumns(q.category)),
                                     !.csv = to_csv(e),
                                     !.exported = TRUE]
                          : e \in Ranked(eligible, q.category, q.marks)}

\* ", ".join(eligible_df["COLLEGE NAME"].head(6).tolist()), marks and category
BuildPrompt(page) ==
  LET first == head(page.eligible_df, PromptLimit)
  IN [sent |-> TRUE,
      colleges |-> [r \in 1..Len(first.rows) |-> Cell(first, r, COLLEGE_NAME).s],
      marks |-> page.req.marks,
      category |-> page.req.category]

\* str.join raises TypeError on a blank (NaN) college name
PromptBuilds(page) ==
  \A r \in 1..Len(head(page.eligible_df, PromptLimit).rows) :
     Cell(page.eligible_df, r, COLLEGE_NAME).k = "str"

----------------------------------------------------------------------------
(* The files the model is run on.  Column names stay distinct after         *)
(* normalizing, program and college cells are non-blank text, and a cutoff  *)
(* cell is a non-negative whole number, a word or blank.                    *)

BA == <<"B", "A">>

Colleges == { <<"Miranda House">>, <<"Hindu College">> }
Programs == { BA, <<"b", "a">>, <<"B", "A", "H">> }
Cutoffs == { <<"1">>, <<"2">> }
FewCutoffs == { <<"1">>, <<"x">>, <<>> }

SeqsUpTo(S, n) == UNION {[1..k -> S] : k \in 0..n}

PlainHeader == <<COLLEGE_NAME, PROGRAM_NAME, UR>>

\* every table of at most MaxRows rows over colleges, programs and cutoffs,
\* and a row with no number for a cutoff
FullFiles ==
  {File(PlainHeader, rows) :
     rows \in SeqsUpTo({<<c, p, u>> : c \in Colleges, p \in Programs, u \in Cutoffs}
                          \cup {<< <<"Hindu College">>, BA, <<"x">> >>}, MaxRows)}

\* headers that need normalizing, carry other columns, or lack a required one
OtherHeaders ==
  { << <<" ">> \o lower(COLLEGE_NAME) \o <<" ">>, lower(PROGRAM_NAME), <<"u", "r", " ">> >>,
    <<COLLEGE_NAME, PROGRAM_NAME, PwBD>>,
    <<PROGRAM_NAME, COLLEGE_NAME, UR, OBC>>,
    <<COLLEGE_NAME, UR>>,
    <<PROGRAM_NAME, UR>> }

\* a row under header h: college c, program BA, cutoff u in the first category
\* column and "2" in any further column
RowUnder(h, c, u) ==
  LET first == CHOOSE i \in 1..Len(h) :
                 /\ normalize_column(h[i]) \notin {COLLEGE_NAME, PROGRAM_NAME}
                 /\ \A j \in 1..(i - 1) : normalize_column(h[j]) \in {COLLEGE_NAME, PROGRAM_NAME}
  IN [i \in 1..Len(h) |->
        IF normalize_column(h[i]) = COLLEGE_NAME THEN c
        ELSE IF normalize_column(h[i]) = PROGRAM_NAME THEN BA
        ELSE IF i = first THEN u
        ELSE <<"2">>]

OtherFiles ==
  UNION {{File(h, rows) :
            rows \in SeqsUpTo({RowUnder(h, c, u) : c \in Colleges, u \in FewCutoffs}, MaxRows)}
           : h \in OtherHeaders}

\* longer tables of one program: cutoffs rise, fall, rise in tied pairs, or
\* cycle through 0, 1, 2
LongCutoff(shape, i, n) ==
  CASE shape = "rising" -> i
    [] shape = "falling" -> n + 1 - i
    [] shape = "pairs" -> (i + 1) \div 2
    [] OTHER -> i % 3

LongFiles ==
  {File(PlainHeader,
        [i \in 1..n |->
           <<(IF i % 2 = 1 THEN <<"Miranda House">> ELSE <<"Hindu College">>), BA,
             FormatNat(LongCutoff(shape, i, n))>>])
     : n \in (MaxRows + 1)..MaxLongRows, shape \in {"rising", "falling", "pairs", "cycle"}}

Files == FullFiles \cup OtherFiles \cup LongFiles \cup {NoFile}

\* the files a session uploads in the table-replace runs
UploadFiles ==
  { File(<<lower(COLLEGE_NAME), PROGRAM_NAME, UR>>, << <<<<"Miranda House">>, BA, <<"1">>>> >>),
    File(PlainHeader, << <<<<"Hindu College">>, BA, <<"2">>>> >>) }

----------------------------------------------------------------------------
(* Accounts: users.csv and st.session_state *)

USERNAME == <<"u","s","e","r","n","a","m","e">>
PASSWORD == <<"p","a","s","s","w","o","r","d">>

UsersColumns == <<USERNAME, PASSWORD>>

\* hashlib.sha256(str.encode(password)).hexdigest(): a digest that is never
\* blank, never all digits, differs for different passwords, and is not the
\* password
make_hash(password) == <<"#">> \o [i \in 1..Len(password) |-> password[Len(password) + 1 - i]]

\* the candidate compared with itself
check_hashSelf(password, hashed) == Str(make_hash(password)) = Str(make_hash(password))

\* check_hash(password, hashed), hashed being a cell of users_df
check_hash(password, hashed) == Str(make_hash(password)) = hashed

\* pd.DataFrame(columns=["username", "password"])
NoUsers == [cols |-> UsersColumns, rows |-> <<>>, index |-> <<>>]

\* load_users(): main_app.py lines 23-28, login_page.py lines 13-17
load_users(f) == IF f.exists THEN read_csv(f) ELSE NoUsers

\* save_users(df): df.to_csv("users.csv", index=False)
save_users(d) == File(to_csv(d).columns, to_csv(d).rows)

\* pd.DataFrame([[new_user, make_hash(new_password)]], columns=["username", "password"])
new_row(new_user, new_password) ==
  [cols |-> UsersColumns,
   rows |-> << <<Str(new_user), Str(make_hash(new_password))>> >>,
   index |-> <<0>>]

\* pd.concat([d, e], ignore_index=True), d and e having the same columns
concat(d, e) ==
  [cols |-> d.cols,
   rows |-> d.rows \o e.rows,
   index |-> [i \in 1..(Len(d.rows) + Len(e.rows)) |-> i - 1]]

\* username in users_df["username"].values: a text equals a text cell, never
\* a number cell
username_in(d, username) == \E r \in 1..Len(d.rows) : Cell(d, r, USERNAME) = Str(username)

\* users_df.loc[users_df["username"] == username, "password"].values[0]
stored_hash(d, username) ==
  Cell(d, SetMin({r \in 1..Len(d.rows) : Cell(d, r, USERNAME) = Str(username)}), PASSWORD)

\* st.session_state without and with the login keys
NoSession == [logged_in |-> FALSE, username |-> <<>>]
Session(username) == [logged_in |-> TRUE, username |-> username]

\* kind: "none"; "invalid" (main_app.py:105); "mismatch" (login_page.py:62);
\*   "exists" (main_app.py:107, login_page.py:64); "created" (main_app.py:112,
\*   login_page.py:71); "welcome" (main_app.py:125, login_page.py:45);
\*   "bad_password" (main_app.py:129, login_page.py:48);
\*   "not_found" (main_app.py:131, login_page.py:50)
NoForm == [kind |-> "none", user |-> <<>>, password |-> <<>>]
Form(kind, user, password) == [kind |-> kind, user |-> user, password |-> password]

NoAttempt == [made |-> FALSE, valid |-> FALSE, user |-> <<>>]
\* a login attempt: the username, and whether users.csv as the run read it
\* has a row of that username and the hash of that password
Attempt(f, username, password) ==
  [made |-> TRUE,
   valid |-> \E r \in 1..Len(f.rows) : f.rows[r] = <<username, make_hash(password)>>,
   user |-> username]

\* the inputs typed into the account forms
Usernames == { <<"a", "l">>, <<"0", "7">> }
Passwords == { <<"p">>, <<"q">>, <<>> }
PlainNames == { <<"a", "l">>, <<"b", "o">> }
PlainPasswords == { <<"p">>, <<"q">> }

\* the account every session of the finder runs has logged in with
HomeUser == <<"a", "l">>
HomePassword == <<"p">>

----------------------------------------------------------------------------
(* The process: one Streamlit server, a script run per session interaction *)

NoEntry == [present |-> FALSE, value |-> Loaded(EmptyDF, FALSE)]
Entry(v) == [present |-> TRUE, value |-> v]

\* the function st.cache_data wraps
Loader(f) == IF app = "main" THEN load_cutoff_data(f) ELSE load_data(f)

InitCommon ==
  /\ cache = NoEntry
  /\ pc = [s \in Sessions |-> "idle"]
  /\ held = [s \in Sessions |-> Loaded(EmptyDF, FALSE)]
  /\ df = [s \in Sessions |-> EmptyDF]
  /\ out = [s \in Sessions |-> Blank]
  /\ replaced = FALSE
  /\ fresh = [s \in Sessions |-> FALSE]
  /\ stale = [s \in Sessions |-> FALSE]

\* no users.csv yet, no session has logged in
InitFresh ==
  /\ users = NoFile
  /\ apc = [s \in Sessions |-> "idle"]
  /\ users_df = [s \in Sessions |-> NoUsers]
  /\ ss = [s \in Sessions |-> NoSession]
  /\ form = [s \in Sessions |-> NoForm]
  /\ seen = [s \in Sessions |-> NoFile]
  /\ last = [s \in Sessions |-> NoAttempt]
  /\ grant = [s \in Sessions |-> NoAttempt]

\* main_app.py: every session has signed up and logged in as HomeUser;
\* du_pref_app.py has no accounts
InitLoggedIn ==
  IF app = "main"
  THEN /\ users = File(UsersColumns, << <<HomeUser, make_hash(HomePassword)>> >>)
       /\ apc = [s \in Sessions |-> "idle"]
       /\ users_df = [s \in Sessions |-> NoUsers]
       /\ ss = [s \in Sessions |-> Session(HomeUser)]
       /\ form = [s \in Sessions |-> NoForm]
       /\ seen = [s \in Sessions |-> NoFile]
       /\ last = [s \in Sessions |-> Attempt(users, HomeUser, HomePassword)]
       /\ grant = last
  ELSE InitFresh

Init ==
  /\ app \in {"main", "simple"}
  /\ gemini \in (IF app = "main" THEN BOOLEAN ELSE {FALSE})
  /\ disk \in Files
  /\ InitCommon
  /\ InitLoggedIn

Replacing == \E t \in Sessions : pc[t] = "clearing"

\* some session is computing the value of the cache entry
Computing == \E t \in Sessions : pc[t] \in {"reading", "storing"}

\* main_app.py line 134: the tabs are drawn for a logged-in session only
Gate(s) == app = "main" => ss[s].logged_in

\* a rerun reaches load_cutoff_data() / load_data(): a cache hit returns the
\* cached value; a miss starts computing it, one session at a time (a session
\* that finds another one computing waits and looks in the cache again)
StartRun(s) ==
  /\ pc[s] \in {"idle", "page", "done"}
  /\ apc[s] = "idle"
  /\ Gate(s)
  /\ out' = [out EXCEPT ![s] = [Blank EXCEPT !.warned = cache.present /\ cache.value.warned]]
  /\ IF cache.present
     THEN /\ pc' = [pc EXCEPT ![s] = "loaded"]
          /\ df' = [df EXCEPT ![s] = cache.value.df]
          /\ fresh' = [fresh EXCEPT ![s] = replaced /\ ~Replacing]
          /\ stale' = [stale EXCEPT ![s] = replaced /\ ~Replacing
                                           /\ cache.value.df # Loader(disk).df]
     ELSE /\ ~Computing
          /\ pc' = [pc EXCEPT ![s] = "reading"]
          /\ fresh' = [fresh EXCEPT ![s] = replaced /\ ~Replacing]
          /\ stale' = [stale EXCEPT ![s] = FALSE]
          /\ df' = [df EXCEPT ![s] = EmptyDF]
  /\ UNCHANGED <<acct, app, gemini, disk, cache, held, replaced>>

\* the cache miss runs the function body: pd.read_csv and the normalization
ReadFile(s) ==
  /\ pc[s] = "reading"
  /\ LET v == Loader(disk)
     IN IF v.raised
        THEN /\ pc' = [pc EXCEPT ![s] = "idle"]
             /\ out' = [out EXCEPT ![s].kind = "raised"]
             /\ held' = held
        ELSE /\ pc' = [pc EXCEPT ![s] = "storing"]
             /\ held' = [held EXCEPT ![s] = v]
             /\ out' = out
  /\ UNCHANGED <<acct, app, gemini, disk, cache, df, replaced, fresh, stale>>

\* the computed value is written to the cache and returned
StoreCache(s) ==
  /\ pc[s] = "storing"
  /\ cache' = Entry(held[s])
  /\ df' = [df EXCEPT ![s] = held[s].df]
  /\ out' = [out EXCEPT ![s].warned = held[s].warned]
  /\ stale' = [stale EXCEPT ![s] = fresh[s] /\ held[s].df # Loader(disk).df]
  /\ pc' = [pc EXCEPT ![s] = "loaded"]
  /\ UNCHANGED <<acct, app, gemini, disk, held, replaced, fresh>>

\* the form is drawn: main_app.py lines 148-160, du_pref_app.py lines 38-44
Render(s) ==
  /\ pc[s] = "loaded"
  /\ IF app = "main"
     THEN IF IsEmpty(df[s])
          THEN /\ out' = [out EXCEPT ![s].kind = "dataset_missing"]
               /\ pc' = [pc EXCEPT ![s] = "page"]
          ELSE IF ~HasColumn(df[s], PROGRAM_NAME)
          THEN /\ out' = [out EXCEPT ![s].kind = "raised"]
               /\ pc' = [pc EXCEPT ![s] = "idle"]
          ELSE /\ out' = [out EXCEPT ![s].programs = MainPrograms(df[s])]
               /\ pc' = [pc EXCEPT ![s] = "page"]
     ELSE /\ out' = [out EXCEPT ![s].programs = SimplePrograms(df[s])]
          /\ pc' = [pc EXCEPT ![s] = "page"]
  /\ UNCHANGED <<acct, app, gemini, disk, cache, held, df, replaced, fresh, stale>>

\* main_app.py: "Generate Preference List" is pressed
Find(s) ==
  /\ pc[s] = "page"
  /\ app = "main"
  /\ ~IsEmpty(df[s])
  /\ \E program \in out[s].programs, c \in 1..Len(MainCategories),
        marks \in Scores, girls_only \in BOOLEAN :
       \E o \in FinderOutcomes(out[s], df[s], Req(program, MainCategories[c], marks, girls_only)) :
          /\ out' = [out EXCEPT ![s] = o]
          /\ pc' = [pc EXCEPT ![s] = IF o.kind = "raised" THEN "idle"
                                     ELSE IF o.kind = "eligible" /\ gemini THEN "gemini"
                                     ELSE "done"]
  /\ UNCHANGED <<acct, app, gemini, disk, cache, held, df, replaced, fresh, stale>>

\* du_pref_app.py: the sidebar form is submitted
Submit(s) ==
  /\ pc[s] = "page"
  /\ app = "simple"
  /\ \E c \in 1..Len(SimpleCategories), marks \in Scores, girls_only \in BOOLEAN :
       IF out[s].programs = {}
       THEN \* the selectbox has no option, program is None, program.lower() raises
            out' = [out EXCEPT ![s].kind = "unexpected_error",
                               ![s].req = Req(<<>>, SimpleCategories[c], marks, girls_only)]
       ELSE \E program \in out[s].programs :
              \E o \in SimpleOutcomes(out[s], df[s],
                                      Req(program, SimpleCategories[c], marks, girls_only)) :
                 out' = [out EXCEPT ![s] = o]
  /\ pc' = [pc EXCEPT ![s] = "done"]
  /\ UNCHANGED <<acct, app, gemini, disk, cache, held, df, replaced, fresh, stale>>

\* main_app.py lines 211-225: the prompt is built, the model answers
GeminiReply(s) ==
  /\ pc[s] = "gemini"
  /\ PromptBuilds(out[s])
  /\ out' = [out EXCEPT ![s].prompt = BuildPrompt(out[s]), ![s].note = "text"]
  /\ pc' = [pc EXCEPT ![s] = "done"]
  /\ UNCHANGED <<acct, app, gemini, disk, cache, held, df, replaced, fresh, stale>>

\* the exception of the call ends the script run and takes the list with it
GeminiFailEscapes(s) ==
  /\ pc[s] = "gemini"
  /\ out' = [out EXCEPT ![s] = [Blank EXCEPT !.kind = "raised", !.req = out[s].req]]
  /\ pc' = [pc EXCEPT ![s] = "idle"]
  /\ UNCHANGED <<acct, app, gemini, disk, cache, held, df, replaced, fresh, stale>>

\* main_app.py lines 226-227: anything in the try block raises, before or
\* after the prompt went out
GeminiFail(s) ==
  /\ pc[s] = "gemini"
  /\ \E sent \in BOOLEAN :
       /\ sent => PromptBuilds(out[s])
       /\ out' = [out EXCEPT ![s].prompt = IF sent THEN BuildPrompt(out[s]) ELSE NoPrompt,
                             ![s].note = "error"]
  /\ pc' = [pc EXCEPT ![s] = "done"]
  /\ UNCHANGED <<acct, app, gemini, disk, cache, held, df, replaced, fresh, stale>>

\* main_app.py lines 318-323: the uploaded file is read and saved over du_cutoff.csv
UploadWrite(s) ==
  /\ pc[s] \in {"page", "done"}
  /\ app = "main"
  /\ \E f \in UploadFiles : disk' = SavedUpload(f)
  /\ pc' = [pc EXCEPT ![s] = "clearing"]
  /\ fresh' = [t \in Sessions |-> IF pc[t] \in {"reading", "storing"} THEN FALSE ELSE fresh[t]]
  /\ UNCHANGED <<acct, app, gemini, cache, held, df, out, replaced, stale>>

\* main_app.py lines 326-328: load_cutoff_data.clear(), then the rerun
UploadClear(s) ==
  /\ pc[s] = "clearing"
  /\ cache' = NoEntry
  /\ replaced' = TRUE
  /\ pc' = [pc EXCEPT ![s] = "idle"]
  /\ UNCHANGED <<acct, app, gemini, disk, held, df, out, fresh, stale>>

----------------------------------------------------------------------------
(* The account code of a script run *)

finder == <<app, gemini, disk, cache, pc, held, df, out, replaced, fresh, stale>>

\* a script run starts: users_df = load_users() (main_app.py line 97,
\* login_page.py line 31), and an account button has been pressed
LoadUsers(s) ==
  /\ app = "main"
  /\ apc[s] = "idle"
  /\ pc[s] \in {"idle", "page", "done"}
  /\ users_df' = [users_df EXCEPT ![s] = load_users(users)]
  /\ seen' = [seen EXCEPT ![s] = users]
  /\ apc' = [apc EXCEPT ![s] = "sidebar"]
  /\ form' = [form EXCEPT ![s] = NoForm]
  /\ pc' = [pc EXCEPT ![s] = "idle"]
  /\ out' = [out EXCEPT ![s] = Blank]
  /\ UNCHANGED <<users, ss, last, grant>>
  /\ UNCHANGED <<app, gemini, disk, cache, held, df, replaced, fresh, stale>>

\* the account code of the run is over: users_df is not used again
EndAccount(s) ==
  /\ apc' = [apc EXCEPT ![s] = "idle"]
  /\ users_df' = [users_df EXCEPT ![s] = NoUsers]
  /\ seen' = [seen EXCEPT ![s] = NoFile]

\* main_app.py lines 103-113: "Create Account" in the sidebar
SignupMain(s, U, P) ==
  /\ apc[s] = "sidebar"
  /\ \E new_user \in U, new_password \in P :
       IF new_user = <<>> \/ new_password = <<>>
       THEN /\ form' = [form EXCEPT ![s] = Form("invalid", new_user, new_password)]
            /\ UNCHANGED users
       ELSE IF username_in(users_df[s], new_user)
       THEN /\ form' = [form EXCEPT ![s] = Form("exists", new_user, new_password)]
            /\ UNCHANGED users
       ELSE /\ Len(users_df[s].rows) < MaxUsers
            /\ users' = save_users(concat(users_df[s], new_row(new_user, new_password)))
            /\ form' = [form EXCEPT ![s] = Form("created", new_user, new_password)]
  /\ EndAccount(s)
  /\ UNCHANGED <<ss, last, grant, finder>>

\* login_page.py lines 60-69: "Create Account", up to the reload of users.csv
SignupPage(s, U, P) ==
  /\ apc[s] = "sidebar"
  /\ \E new_user \in U, new_pass \in P, confirm_pass \in P :
       IF new_pass # confirm_pass
       THEN /\ form' = [form EXCEPT ![s] = Form("mismatch", new_user, new_pass)]
            /\ EndAccount(s)
       ELSE IF username_in(users_df[s], new_user)
       THEN /\ form' = [form EXCEPT ![s] = Form("exists", new_user, new_pass)]
            /\ EndAccount(s)
       ELSE /\ Len(load_users(users).rows) < MaxUsers
            /\ users_df' = [users_df EXCEPT
                              ![s] = concat(load_users(users), new_row(new_user, new_pass))]
            /\ form' = [form EXCEPT ![s] = Form("none", new_user, new_pass)]
            /\ apc' = [apc EXCEPT ![s] = "saving"]
            /\ UNCHANGED seen
  /\ UNCHANGED <<users, ss, last, grant, finder>>

\* login_page.py lines 70-71: save_users(users_df) and the success message
SignupPageSave(s) ==
  /\ apc[s] = "saving"
  /\ users' = save_users(users_df[s])
  /\ form' = [form EXCEPT ![s].kind = "created"]
  /\ EndAccount(s)
  /\ UNCHANGED <<ss, last, grant, finder>>

\* main_app.py lines 119-131 and login_page.py lines 39-50: "Login"
Login(s, U, P) ==
  /\ apc[s] = "sidebar"
  /\ \E username \in U, password \in P :
       LET found == username_in(users_df[s], username)
           attempt == Attempt(seen[s], username, password)
       IN /\ last' = [last EXCEPT ![s] = attempt]
          /\ IF found /\ check_hash(password, stored_hash(users_df[s], username))
             THEN /\ ss' = [ss EXCEPT ![s] = Session(username)]
                  /\ grant' = [grant EXCEPT ![s] = attempt]
                  /\ form' = [form EXCEPT ![s] = Form("welcome", username, password)]
             ELSE /\ form' = [form EXCEPT ![s] =
                                Form(IF found THEN "bad_password" ELSE "not_found",
                                     username, password)]
                  /\ UNCHANGED <<ss, grant>>
  /\ EndAccount(s)
  /\ UNCHANGED <<users, finder>>

\* main_app.py lines 137-139: "Logout", st.session_state.clear() and the rerun
Logout(s) ==
  /\ app = "main"
  /\ ss[s].logged_in
  /\ apc[s] = "idle"
  /\ pc[s] \in {"idle", "page", "done"}
  /\ ss' = [ss EXCEPT ![s] = NoSession]
  /\ form' = [form EXCEPT ![s] = NoForm]
  /\ pc' = [pc EXCEPT ![s] = "idle"]
  /\ out' = [out EXCEPT ![s] = Blank]
  /\ UNCHANGED <<users, apc, users_df, seen, last, grant>>
  /\ UNCHANGED <<app, gemini, disk, cache, held, df, replaced, fresh, stale>>

\* main_app.py lines 336-340: the page of a session that is not logged in
GateClosed(s) ==
  /\ ~Gate(s)
  /\ apc[s] = "idle"
  /\ pc[s] = "idle"
  /\ out[s].kind = "none"
  /\ out' = [out EXCEPT ![s].kind = "login_required"]
  /\ UNCHANGED <<acct, app, gemini, disk, cache, pc, held, df, replaced, fresh, stale>>

Next ==
  \E s \in {1} :
    \/ StartRun(s)
    \/ ReadFile(s)
    \/ StoreCache(s)
    \/ Render(s)
    \/ Find(s)
    \/ Submit(s)
    \/ GeminiReply(s)
    \/ GeminiFail(s)

Spec == Init /\ [][Next]_vars

InitCache ==
  /\ app = "main"
  /\ gemini = FALSE
  /\ disk \in {SavedUpload(f) : f \in UploadFiles} \cup {NoFile}
  /\ InitCommon
  /\ InitLoggedIn

NextCache ==
  \E s \in Sessions :
    \/ StartRun(s)
    \/ ReadFile(s)
    \/ StoreCache(s)
    \/ Render(s)
    \/ UploadWrite(s)
    \/ UploadClear(s)

SpecCache == InitCache /\ [][NextCache]_vars

InitAccount ==
  /\ app = "main"
  /\ gemini = FALSE
  /\ disk = NoFile
  /\ InitCommon
  /\ InitFresh

\* one session on the account forms
NextAccount ==
  \E s \in {1} :
    \/ LoadUsers(s)
    \/ SignupMain(s, Usernames, Passwords)
    \/ SignupPage(s, Usernames, Passwords)
    \/ SignupPageSave(s)
    \/ Login(s, Usernames, Passwords)
    \/ Logout(s)
    \/ GateClosed(s)

SpecAccount == InitAccount /\ [][NextAccount]_vars

\* every session signing up, on either page
NextSignup ==
  \E s \in Sessions :
    \/ LoadUsers(s)
    \/ SignupMain(s, PlainNames, PlainPasswords)
    \/ SignupPage(s, PlainNames, PlainPasswords)
    \/ SignupPageSave(s)

SpecSignup == InitAccount /\ [][NextSignup]_vars

\* session 1 signs up as HomeUser, logs in and out and works behind the gate,
\* while another session signs up
NextAuth ==
  \/ \E s \in {1} :
       \/ LoadUsers(s)
       \/ SignupMain(s, {HomeUser}, {HomePassword})
       \/ Login(s, PlainNames, PlainPasswords)
       \/ Logout(s)
       \/ GateClosed(s)
       \/ StartRun(s)
       \/ ReadFile(s)
       \/ StoreCache(s)
       \/ Render(s)
       \/ UploadWrite(s)
       \/ UploadClear(s)
  \/ \E s \in {2} :
       \/ LoadUsers(s)
       \/ SignupMain(s, PlainNames, PlainPasswords)

SpecAuth == InitAccount /\ [][NextAuth]_vars

----------------------------------------------------------------------------
(* Properties *)

Required == <<COLLEGE_NAME, PROGRAM_NAME>>

\* a query was made, with a program of the list, on a table that has both
\* required columns
Asked(s) ==
  /\ out[s].req.asked
  /\ out[s].req.program \in out[s].programs
  /\ HasColumns(df[s], Required)

\* the index labels of the rows of d that match program q.program ignoring
\* case and, if q.girls_only, whose college is in the allowlist
MatchingLabels(d, q) ==
  {d.index[r] : r \in {i \in 1..Len(d.rows) :
      /\ Cell(d, i, PROGRAM_NAME).k = "str"
      /\ lower(Cell(d, i, PROGRAM_NAME).s) = lower(q.program)
      /\ q.girls_only => Cell(d, i, COLLEGE_NAME).s \in girls_colleges}}

\* the row position of index label l in d
PosOf(d, l) == CHOOSE r \in 1..Len(d.rows) : d.index[r] = l

\* the matching rows whose value for the category is present
PresentLabels(d, q) ==
  {l \in MatchingLabels(d, q) : Cell(d, PosOf(d, l), q.category).k = "num"}

\* the matching rows whose value for the category is present and <= the score
EligibleLabels(d, q) ==
  {l \in PresentLabels(d, q) : Cell(d, PosOf(d, l), q.category).n <= q.marks}

Distinct(seq) == \A i, j \in 1..Len(seq) : i # j => seq[i] # seq[j]

\* C1: a query on a category that is a column lists exactly the rows whose
\* program equals the requested one ignoring case, whose college is in the
\* allowlist when girls-only is asked, and whose category value is present
\* and <= the score; each once, none other, none left out.
C1_EligibleExact ==
  \A s \in Sessions :
    (Asked(s) /\ HasColumn(df[s], out[s].req.category)) =>
       /\ out[s].kind \in {"no_data", "not_eligible", "eligible"}
       /\ Range(out[s].shown.index) = EligibleLabels(df[s], out[s].req)
       /\ Distinct(out[s].shown.index)
       /\ out[s].eligible_df.index = out[s].shown.index

\* a girls-only query lists some rows and leaves out others
C1_Witness ==
  \E s \in Sessions :
    /\ Asked(s)
    /\ out[s].kind = "eligible"
    /\ out[s].req.girls_only
    /\ Len(out[s].shown.rows) >= 1
    /\ Len(out[s].shown.rows) < Len(df[s].rows)

\* C2: in a non-empty result every entry's margin is score minus its cutoff
\* and is >= 0, margins do not increase down the list, and the ranks are
\* 1, 2, ..., n in list order.
C2_MarginRankOrder ==
  \A s \in Sessions :
    (out[s].kind = "eligible") =>
       LET t == out[s].shown
           q == out[s].req
       IN /\ Len(t.rows) >= 1
          /\ \A i \in 1..Len(t.rows) :
               /\ Cell(t, i, MARKS_ABOVE_CUTOFF) = Num(q.marks - Cell(t, i, q.category).n)
               /\ Cell(t, i, MARKS_ABOVE_CUTOFF).n >= 0
               /\ Cell(t, i, RANK) = Num(i)
               /\ Cell(t, i, q.category) = Cell(df[s], PosOf(df[s], t.index[i]), q.category)
          /\ \A i \in 1..(Len(t.rows) - 1) :
               Cell(t, i, MARKS_ABOVE_CUTOFF).n >= Cell(t, i + 1, MARKS_ABOVE_CUTOFF).n

\* a result of two entries or more with different margins
C2_Witness ==
  \E s \in Sessions :
    /\ out[s].kind = "eligible"
    /\ Len(out[s].shown.rows) >= 2
    /\ Cell(out[s].shown, 1, MARKS_ABOVE_CUTOFF).n > Cell(out[s].shown, 2, MARKS_ABOVE_CUTOFF).n

\* C3: the ranking sort is stable: entries of equal margin keep the relative
\* order they have in the cutoff table.
C3_StableRanking ==
  \A s \in Sessions :
    (out[s].kind = "eligible") =>
       LET t == out[s].shown
       IN \A i, j \in 1..Len(t.rows) :
            (i < j /\ Cell(t, i, MARKS_ABOVE_CUTOFF) = Cell(t, j, MARKS_ABOVE_CUTOFF))
               => t.index[i] < t.index[j]

\* C4: whenever the requested category is not a column of the table, the
\* query reports the category as unavailable, whatever the program and the
\* girls-only flag, and shows no list, no nearest cutoffs and no export.
C4_CategoryUnavailable ==
  \A s \in Sessions :
    (Asked(s) /\ ~HasColumn(df[s], out[s].req.category)) =>
       /\ out[s].kind = "category_unavailable"
       /\ Len(out[s].shown.rows) = 0
       /\ ~out[s].nearest_shown
       /\ ~out[s].exported

SixCodes == {upper(MainCategories[k]) : k \in 1..Len(MainCategories)}

\* C5: in both apps, a column of the file whose trimmed, upper-cased name is
\* one of the six codes is loaded as numbers and missing values only, and a
\* query selecting that code is evaluated on it, not reported unavailable.
C5_SixCategories ==
  \A s \in Sessions :
    /\ \A c \in 1..Len(df[s].cols) :
         df[s].cols[c] \in SixCodes =>
            \A r \in 1..Len(df[s].rows) : df[s].rows[r][c].k \in {"num", "nan"}
    /\ (Asked(s) /\ HasColumn(df[s], upper(out[s].req.category))) =>
          out[s].kind # "category_unavailable"

Min(a, b) == IF a < b THEN a ELSE b

\* C6: nearest cutoffs are shown only when no row is eligible; they are
\* matching rows with a present value, at most 6, in non-decreasing order of
\* cutoff, the lowest ones, and none (without failing) when there is no
\* such row.
C6_NearestMiss ==
  \A s \in Sessions :
    LET o == out[s]
        q == o.req
        d == df[s]
        n == o.nearest
    IN /\ o.nearest_shown =>
            /\ o.kind = "not_eligible"
            /\ EligibleLabels(d, q) = {}
            /\ Len(o.shown.rows) = 0
            /\ Range(n.index) \subseteq PresentLabels(d, q)
            /\ Distinct(n.index)
            /\ Len(n.rows) <= NearestLimit
            /\ Len(n.rows) = Min(NearestLimit, Cardinality(PresentLabels(d, q)))
            /\ \A i \in 1..Len(n.rows) :
                 Cell(n, i, q.category) = Cell(d, PosOf(d, n.index[i]), q.category)
            /\ \A i \in 1..(Len(n.rows) - 1) :
                 Cell(n, i, q.category).n <= Cell(n, i + 1, q.category).n
            /\ \A l \in PresentLabels(d, q) \ Range(n.index) :
                 \A i \in 1..Len(n.rows) :
                    Cell(n, i, q.category).n <= Cell(d, PosOf(d, l), q.category).n
       /\ (/\ app = "main"
           /\ Asked(s)
           /\ HasColumn(d, q.category)
           /\ MatchingLabels(d, q) # {}
           /\ EligibleLabels(d, q) = {}) => (o.nearest_shown /\ o.kind = "not_eligible")
       /\ (~o.nearest_shown) => Len(n.rows) = 0

\* more candidates than the limit: the list is cut to the 6 lowest
C6_Witness ==
  \E s \in Sessions :
    /\ out[s].nearest_shown
    /\ Len(out[s].nearest.rows) = NearestLimit
    /\ Cardinality(PresentLabels(df[s], out[s].req)) > NearestLimit

\* C7: the exported file has exactly the columns rank, college, program,
\* category used, margin, in that order.
C7_ExportColumns ==
  \A s \in Sessions :
    out[s].exported => out[s].csv.columns = ShownColumns(out[s].req.category)

\* C8: a read of the cached table that starts after a replace has completed
\* (file written, cache cleared, no other replace under way) returns the
\* table of the file as last written.
C8_ReadAfterReplace == \A s \in Sessions : ~stale[s]

\* the list, the export and the prompt while and after the model is called
C9_ListAndPrompt ==
  \A s \in Sessions :
    LET o == out[s]
    IN /\ (pc[s] = "gemini" \/ o.note \in {"text", "error"}) =>
            /\ o.kind = "eligible"
            /\ Len(o.shown.rows) >= 1
            /\ o.shown = Project(o.eligible_df, ShownColumns(o.req.category))
            /\ o.exported
            /\ o.csv = to_csv(o.eligible_df)
       /\ pc[s] = "gemini" => (~o.prompt.sent /\ o.note = "none")
       /\ o.note = "text" => o.prompt.sent
       /\ o.prompt.sent =>
            /\ Len(o.prompt.colleges) <= PromptLimit
            /\ Len(o.prompt.colleges) = Min(PromptLimit, Len(o.shown.rows))
            /\ \A i \in 1..Len(o.prompt.colleges) :
                 o.prompt.colleges[i] = Cell(o.shown, i, COLLEGE_NAME).s
            /\ o.prompt.marks = o.req.marks
            /\ o.prompt.category = o.req.category

\* the step that ends the call: the run goes on to its end with a note or an
\* error message, and the list and the export are what they were
C9_CallStep ==
  \A s \in Sessions :
    (pc[s] = "gemini" /\ out'[s] # out[s]) =>
       /\ pc'[s] = "done"
       /\ out'[s].note \in {"text", "error"}
       /\ out'[s].kind = out[s].kind
       /\ out'[s].shown = out[s].shown
       /\ out'[s].csv = out[s].csv
       /\ out'[s].exported = out[s].exported

\* C9: with a non-empty eligible set the ranked list and its export are
\* produced before the text-generation call; a failing call is caught and
\* shown as a message, and leaves the list and the export as they were; the
\* prompt carries at most 6 of the listed college names, the score and the
\* category.
C9_CallNeverInvalidates == [](C9_ListAndPrompt) /\ [][C9_CallStep]_vars

\* the call failed after a prompt of 6 names went out, more being listed
C9_Witness ==
  \E s \in Sessions :
    /\ out[s].note = "error"
    /\ out[s].prompt.sent
    /\ Len(out[s].prompt.colleges) = PromptLimit
    /\ Len(out[s].shown.rows) > PromptLimit

\* C10: when the file lacks COLLEGE NAME or PROGRAM NAME the loader warns and
\* returns the table, and no later operation on it raises.
C10_MissingColumnDegrades ==
  \A s \in Sessions :
    (app = "main" /\ Len(df[s].cols) > 0 /\ ~HasColumns(df[s], Required)) =>
       /\ out[s].warned
       /\ out[s].kind # "raised"

\* C11: in both apps, when du_cutoff.csv is absent the loader returns an
\* empty table, no later operation raises, and the page shows the
\* data-unavailable outcome, which is not the outcome of a query that ran on
\* a loaded table and matched nothing.
C11_AbsentSource ==
  \A s \in Sessions :
    ~disk.exists =>
       /\ out[s].kind \notin {"raised", "unexpected_error"}
       /\ out[s].kind \notin {"no_data", "not_eligible"}
       /\ pc[s] \in {"loaded", "page", "done"} => IsEmpty(df[s])
       /\ pc[s] \in {"page", "done"} => out[s].kind = "dataset_missing"

\* users.csv has a row of this username
StoreHas(f, username) == \E r \in 1..Len(f.rows) : f.rows[r][1] = username

\* a sign up that passed the form's validation is answered in this step
C12_SignupStep ==
  \A s \in Sessions :
    (form[s].kind = "none" /\ form'[s].kind \in {"exists", "created"}) =>
       LET u == form'[s].user
           h == make_hash(form'[s].password)
       IN IF StoreHas(users, u)
          THEN form'[s].kind = "exists" /\ users' = users
          ELSE /\ form'[s].kind = "created"
               /\ users' = File(UsersColumns, users.rows \o << <<u, h>> >>)

\* C12: a sign up whose username is already in users.csv is reported as
\* already existing and leaves users.csv as it is; a sign up with a new
\* username adds exactly one row (username, hash of the password) and leaves
\* every existing row as it is.
C12_Signup == [][C12_SignupStep]_vars

\* at most one row per username
C13_OneRowPerName ==
  \A i, j \in 1..Len(users.rows) : i # j => users.rows[i][1] # users.rows[j][1]

\* the rows of users.csv, each the row of a sign up reported as successful,
\* are still there after the step
C13_RowsKeptStep ==
  \A i \in 1..Len(users.rows) : \E j \in 1..Len(users'.rows) : users'.rows[j] = users.rows[i]

\* C13: after any interleaving of sign ups by any number of sessions,
\* users.csv holds at most one row per username and every sign up that was
\* reported as successful still has its row.
C13_SignupInterleaving == [](C13_OneRowPerName) /\ [][C13_RowsKeptStep]_vars

\* the tabs (finder, analytics, upload) are on the page of a logged-in
\* session only
BehindGate ==
  \A s \in Sessions : pc[s] # "idle" => ss[s].logged_in

\* a failed login leaves st.session_state as it was; a change of it outside
\* a login is the logout, which clears the flag and the username
C14_SessionStep ==
  \A s \in Sessions :
    /\ (form[s].kind = "none" /\ form'[s].kind \in {"bad_password", "not_found"}) =>
          ss'[s] = ss[s]
    /\ (apc[s] = "idle" /\ ss'[s] # ss[s]) => ss'[s] = NoSession
    /\ (apc[s] = "sidebar" /\ ss'[s] # ss[s]) => form'[s].kind = "welcome"

\* logged_in is set only if the latest login attempt was a valid one
C14_LastAttemptValid ==
  \A s \in Sessions : ss[s].logged_in => (last[s].made /\ last[s].valid)

\* C14: in the main app logged_in is set only if the session's last login
\* attempt named a username of users.csv and the hash of the password given
\* equalled the hash stored for it; a failed login leaves the session state
\* as it was; logout clears the flag and the username; the finder, the
\* analytics and the upload are reachable only while the flag is set.
C14_LoginGate == [](C14_LastAttemptValid /\ BehindGate) /\ [][C14_SessionStep]_vars

\* logged_in is set only if the latest login attempt that set it was a valid
\* one, and the session's username is the one that attempt named
C14_GrantValid ==
  \A s \in Sessions :
    ss[s].logged_in =>
       /\ grant[s].made
       /\ grant[s].valid
       /\ ss[s].username = grant[s].user

\* C14 as amended: logged_in is set only if the login attempt that last set
\* it (later failed attempts aside) named a username of users.csv as that
\* run read it, with the hash of the password given equal to the hash
\* stored for it; the rest as in C14.
C14_LoginGateAmended == [](C14_GrantValid /\ BehindGate) /\ [][C14_SessionStep]_vars

\* a logged-in session on the finder page whose latest login attempt failed
C14_Witness ==
  \E s \in Sessions :
    /\ ss[s].logged_in
    /\ pc[s] = "page"
    /\ last[s].made
    /\ ~last[s].valid
    /\ grant[s].valid

====
